---- MODULE Spec2Model ----
(***************************************************************************)
(* Model of the two document microservices:                                *)
(*   mistralOcr/app.py      - /ocr/process, /ocr/chat, /chat/with-document  *)
(*   pdfTableExtract/app.py - /extract-tables                               *)
(*                                                                         *)
(* Spec      : one upload request handled by one of the three upload       *)
(*             endpoints, together with the worker thread it starts.       *)
(*             A step of the handler is the code it runs between two       *)
(*             awaits (asyncio runs that code without interruption).       *)
(* SpecText  : the markdown-table code applied to one text.                *)
(* SpecExcel : one table's frame cleaned and written to a worksheet.       *)
(* SpecPdf   : _process_pdf on one document.                               *)
(* SpecOcr   : concurrent requests, their worker threads and remote calls. *)
(***************************************************************************)
EXTENDS Integers, Sequences, FiniteSets, TLC

VARIABLES
    mistral_client,   \* TRUE iff the lifespan hook created the Mistral client
    endpoint,         \* which handler runs: one of Endpoints, or "none"
    pc,               \* handler position: idle, reading, awaiting, done
    upload_total,     \* number of bytes the client sends (input)
    file_size,        \* the handler's local file_size
    written,          \* bytes written to the temp file so far
    temp_file_path,   \* TRUE iff the local temp_file_path / temp_pdf_path is not None
    on_disk,          \* TRUE iff the temp file exists on disk
    created,          \* history: a temp file was created for this request
    unlinks,          \* history: number of os.unlink calls on the temp path
    reads_after_over, \* history: chunks read after file_size first exceeded the ceiling
    worker,           \* worker thread: none, running, returned, raised
    processed,        \* history: the processing step was invoked
    timed_out,        \* history: asyncio.wait_for raised TimeoutError
    io_fault,         \* history: file.read / temp_file.write raised
    status,           \* HTTP status of the response, 0 while there is none
    req_filename,     \* file.filename of the request (input)
    req_content_type, \* file.content_type of the request (input)
    req_x_file_type,  \* the x-file-type header of the file, "none" if absent (input)
    treated_as,       \* the handler's local content_type after the fallbacks
    \* --- SpecText: the markdown-table code applied to one text ---
    text,             \* the text (document_text, or the model's assistant_message)
    spliced,          \* TRUE once the splicing step of /ocr/chat has run on text
    ocr_tables,       \* the handler's ocr_tables list
    remaining_text,   \* the handler's remaining_text
    table_info,       \* the lines "Table n: headers" appended to the chat prompt
    replied,          \* TRUE once text was handled as the model's reply
    table,            \* parse_markdown_table(assistant_message)
    result_keys,      \* the keys of the response dict built from the reply
    \* --- SpecExcel: one table's frame written to a worksheet ---
    df,               \* formatted_table.df(): [columns, rows]
    cleaned,          \* df after the cleaning of lines 164-171
    sheet,            \* the worksheet: [exists, cells, width, raised]
    xl_pc,            \* idle, table (before line 158), done
    \* --- SpecPdf: _process_pdf on one document ---
    pdf_pc,           \* idle, open, pages, tables, closing, saving, returned, raised
    doc,              \* the local doc: none, open, closed
    doc_closes,       \* history: number of doc.close() calls
    num_pages,        \* number of pages of the opened document (input)
    page_num,         \* the loop's page_num, 0 before the first page
    tables,           \* len(tables) of the current page
    table_num,        \* the loop's table_num, 0 before the first table
    workbook,         \* the sheets of the workbook, in order: [title, written]
    sheets_added_count, \* the local sheets_added_count
    failed,           \* an exception is on its way out of _process_pdf
    table_outcome,    \* history: what happened to the last table processed
    page_errors,      \* history: the pages whose error was logged and skipped
    saved,            \* history: workbook.sheetnames when workbook.save was called
    \* --- SpecOcr: concurrent requests, per request ---
    kind,             \* the endpoint the request was sent to
    handler,          \* the handler coroutine: new, awaiting, chatting, done
    thread,           \* the worker thread: none, started, upload, signed_url, ocr,
                      \* pdf (the call it is in), returned, raised
    calls,            \* history: the remote operations invoked, in order
    remote_error,     \* the exception a remote step (or _process_pdf) raised
    results,          \* what the worker returned: the document it belongs to
    responses,        \* history: the responses sent for the request
    loop_holder       \* the request whose handler blocks the event loop, 0 if none

reqVars == <<mistral_client, endpoint, pc, upload_total, file_size, written,
             temp_file_path, on_disk, created, unlinks, reads_after_over,
             worker, processed, timed_out, io_fault, status,
             req_filename, req_content_type, req_x_file_type, treated_as>>

textVars == <<text, spliced, ocr_tables, remaining_text, table_info, replied, table,
              result_keys>>

\* the request as received, and what type validation made of it
reqInputs == <<req_filename, req_content_type, req_x_file_type, treated_as>>

xlVars == <<df, cleaned, sheet, xl_pc>>

pdfVars == <<pdf_pc, doc, doc_closes, num_pages, page_num, tables, table_num,
             workbook, sheets_added_count, failed, table_outcome, page_errors,
             saved>>

ocrVars == <<kind, handler, thread, calls, remote_error, results, responses,
             loop_holder>>

\* the variables each part of the program does not touch
notReqVars == <<textVars, xlVars, pdfVars, ocrVars>>
notTextVars == <<reqVars, xlVars, pdfVars, ocrVars>>
notXlVars == <<reqVars, textVars, pdfVars, ocrVars>>
notPdfVars == <<reqVars, textVars, xlVars, ocrVars>>
notOcrVars == <<reqVars, textVars, xlVars, pdfVars>>

vars == <<reqVars, textVars, xlVars, pdfVars, ocrVars>>

-----------------------------------------------------------------------------
(* Program constants *)

MAX_FILE_SIZE_MB_MISTRAL == 50
MAX_FILE_SIZE_BYTES_MISTRAL == MAX_FILE_SIZE_MB_MISTRAL * 1024 * 1024
MAX_FILE_SIZE_MB == 25
chunk_size == 1024 * 1024

(* Bounds of the model *)

\* the largest upload is the ceiling plus this many chunks plus one byte
MaxOverChunks == 1

\* the most rows a frame of SpecExcel has
MaxRows == 2

\* the most pages a document of SpecPdf has, the most tables on a page
MaxPages == 2
MaxTables == 2

\* the number of concurrent requests of SpecOcr
MaxRequests == 2

Endpoints == {"ocr_process", "ocr_chat", "extract_tables"}
OcrEndpoints == {"ocr_process", "ocr_chat"}

\* The byte ceiling of an endpoint.  /extract-tables compares
\* file_size / (1024 * 1024) > MAX_FILE_SIZE_MB in floating point; the
\* division by a power of two is exact, so that is file_size > 25 * 2^20.
Ceiling(ep) ==
    IF ep \in OcrEndpoints THEN MAX_FILE_SIZE_BYTES_MISTRAL
    ELSE MAX_FILE_SIZE_MB * 1024 * 1024

UploadSizes(ep) ==
    {0, 1, chunk_size, Ceiling(ep) - 1, Ceiling(ep), Ceiling(ep) + 1,
     Ceiling(ep) + MaxOverChunks * chunk_size + 1}

-----------------------------------------------------------------------------
(* Input validation *)

Lower(c) ==
    CASE c = "P" -> "p" [] c = "D" -> "d" [] c = "F" -> "f" [] c = "J" -> "j"
      [] c = "G" -> "g" [] c = "N" -> "n" [] c = "E" -> "e" [] c = "A" -> "a"
      [] c = "T" -> "t" [] c = "X" -> "x" [] OTHER -> c

LowerStr(s) == [i \in 1..Len(s) |-> Lower(s[i])]

EndsWith(s, suf) ==
    /\ Len(s) >= Len(suf)
    /\ SubSeq(s, Len(s) - Len(suf) + 1, Len(s)) = suf

DotPdf == <<".", "p", "d", "f">>
DotJpg == <<".", "j", "p", "g">>
DotJpeg == <<".", "j", "p", "e", "g">>
DotPng == <<".", "p", "n", "g">>

\* file names a client may send; <<>> is the missing file name
Filenames ==
    { <<>>, <<"a">> \o DotPdf, <<"A", ".", "P", "D", "F">>, <<"a">> \o DotJpg,
      <<"a">> \o DotJpeg, <<"a">> \o DotPng, <<"a", ".", "t", "x", "t">> }

ContentTypes == {"application/pdf", "image/jpeg", "image/png",
                 "application/octet-stream", "text/plain"}
XFileTypes == {"none", "application/pdf", "image/jpeg", "image/png"}

allowed_content_types == {"application/pdf", "image/jpeg", "image/png"}

\* the content type after the octet-stream fallbacks of the OCR service
\* (EffectiveContentTypeAnyDeclared: the fallbacks tried for every declared
\* type that is not allowed)
EffectiveContentTypeAnyDeclared(filename, content_type, x_file_type) ==
    IF content_type \in allowed_content_types THEN content_type
    ELSE IF EndsWith(LowerStr(filename), DotPdf) \/ x_file_type = "application/pdf"
         THEN "application/pdf"
    ELSE IF EndsWith(LowerStr(filename), DotJpg)
            \/ EndsWith(LowerStr(filename), DotJpeg)
            \/ x_file_type = "image/jpeg"
         THEN "image/jpeg"
    ELSE IF EndsWith(LowerStr(filename), DotPng) \/ x_file_type = "image/png"
         THEN "image/png"
    ELSE content_type

EffectiveContentType(filename, content_type, x_file_type) ==
    IF content_type # "application/octet-stream" THEN content_type
    ELSE IF EndsWith(LowerStr(filename), DotPdf) \/ x_file_type = "application/pdf"
         THEN "application/pdf"
    ELSE IF EndsWith(LowerStr(filename), DotJpg)
            \/ EndsWith(LowerStr(filename), DotJpeg)
            \/ x_file_type = "image/jpeg"
         THEN "image/jpeg"
    ELSE IF EndsWith(LowerStr(filename), DotPng) \/ x_file_type = "image/png"
         THEN "image/png"
    ELSE content_type

\* the local content_type when the handler leaves type validation; the
\* table service has none, and a handler that raised before line 188 / 513
\* has not read it
TreatedAs(ep, client, filename, content_type, x_file_type) ==
    IF ep = "extract_tables" THEN "none"
    ELSE IF ep = "ocr_chat" /\ ~client THEN "none"
    ELSE IF filename = <<>> THEN "none"
    ELSE EffectiveContentType(filename, content_type, x_file_type)

\* the status a request is rejected with before any temp file exists, 0 if none
\* (ValidationStatusTypeUnchecked: the OCR service without its 415 test)
ValidationStatusTypeUnchecked(ep, client, filename, content_type, x_file_type) ==
    IF ep = "extract_tables"
    THEN IF filename = <<>> \/ ~EndsWith(LowerStr(filename), DotPdf) THEN 400 ELSE 0
    ELSE IF ep = "ocr_chat" /\ ~client THEN 500
    ELSE IF filename = <<>> THEN 400
    ELSE 0

ValidationStatus(ep, client, filename, content_type, x_file_type) ==
    IF ep = "extract_tables"
    THEN IF filename = <<>> \/ ~EndsWith(LowerStr(filename), DotPdf) THEN 400 ELSE 0
    ELSE IF ep = "ocr_chat" /\ ~client THEN 500
    ELSE IF filename = <<>> THEN 400
    ELSE IF EffectiveContentType(filename, content_type, x_file_type)
              \notin allowed_content_types
         THEN 415
    ELSE 0

-----------------------------------------------------------------------------
(* Helpers of the handlers *)

\* len(chunk) for the next file.read(chunk_size)
NextChunkLen(total, already_read) ==
    IF total - already_read >= chunk_size THEN chunk_size ELSE total - already_read

\* the ceiling test: file_size > MAX_FILE_SIZE_BYTES_MISTRAL,
\* file_size_mb > MAX_FILE_SIZE_MB
OversizeAtLeast(size, limit) == size >= limit
Oversize(size, limit) == size > limit

\* the guard of the finally blocks: temp_file_path and os.path.exists(temp_file_path)
ShouldUnlinkInverted(path, exists) == path /\ ~exists
ShouldUnlink(path, exists) == path /\ exists

\* the status the timeout wrappers turn an outcome of the worker into
OutcomeStatusNoTimeoutClause(outcome) ==
    CASE outcome = "returned" -> 200
      [] OTHER -> 500
OutcomeStatus(outcome) ==
    CASE outcome = "returned" -> 200
      [] outcome = "timeout" -> 504
      [] OTHER -> 500

\* the handler leaves through its finally block with response st
Leave(st) ==
    /\ pc' = "done"
    /\ status' = st
    /\ on_disk' = IF ShouldUnlink(temp_file_path, on_disk) THEN FALSE ELSE on_disk
    /\ unlinks' = IF ShouldUnlink(temp_file_path, on_disk) THEN unlinks + 1 ELSE unlinks

-----------------------------------------------------------------------------
(* Markdown tables: the regular expression, parse_markdown_table and the   *)
(* splicing step of /ocr/chat.  A text is a sequence of characters;        *)
(* offsets are Python's (0-based start, exclusive end).                    *)

NL == "\n"

MinOf(S) == CHOOSE x \in S : \A y \in S : x <= y
MaxOf(S) == CHOOSE x \in S : \A y \in S : x >= y

\* \s of the pattern and the whitespace of str.strip(), within the alphabet
IsSpace(c) == c = " " \/ c = NL

\* the class [-|\s] of the separator group
SepClass == {"-", "|", " ", NL}

\* the position of the first c at or after position i (1-based), 0 if none
IndexFrom(t, c, i) ==
    LET S == {j \in i..Len(t) : t[j] = c}
    IN IF S = {} THEN 0 ELSE MinOf(S)

\* s[:k] and s[k:]
PyPrefix(s, k) == SubSeq(s, 1, IF k < Len(s) THEN k ELSE Len(s))
PySuffix(s, k) == IF k >= Len(s) THEN <<>> ELSE SubSeq(s, k + 1, Len(s))

NoMatch == [ok |-> FALSE, start |-> 0, end |-> 0, g1 |-> <<>>, g2 |-> <<>>, g3 |-> <<>>]

\* ((?:\|[^\n]+\|\n?)*) from position r (1-based): the position after the
\* last row matched.  Each iteration takes the line up to its last pipe
\* (greedy [^\n]+, backtracking to a pipe) and a newline if one follows.
RECURSIVE RowsEnd(_, _)
RowsEnd(t, r) ==
    IF r > Len(t) \/ t[r] # "|" THEN r
    ELSE LET nl == IndexFrom(t, NL, r)
             e == IF nl = 0 THEN Len(t) ELSE nl - 1
             K == {k \in (r + 2)..e : t[k] = "|"}
         IN IF K = {} THEN r
            ELSE LET k == MaxOf(K)
                 IN RowsEnd(t, IF k + 1 <= Len(t) /\ t[k + 1] = NL THEN k + 2 ELSE k + 1)

\* The pattern \|([^\n]+)\|\n\|(SEP+)\|\n((?:\|[^\n]+\|\n?)*) tried at
\* position i (1-based), with the backtracking order of Python's re; SEP is
\* the character class of the separator group.
MatchAtG(sep, t, i) ==
    IF i > Len(t) \/ t[i] # "|" THEN NoMatch
    ELSE LET eol == IndexFrom(t, NL, i + 1)
         IN IF eol = 0 \/ eol - 1 < i + 2 \/ t[eol - 1] # "|" THEN NoMatch
            ELSE IF eol + 1 > Len(t) \/ t[eol + 1] # "|" THEN NoMatch
            ELSE LET p == eol + 2
                     Bad == {j \in p..Len(t) : t[j] \notin sep}
                     q == IF Bad = {} THEN Len(t) ELSE MinOf(Bad) - 1
                     Ls == {l \in 1..(q - p + 1) :
                              /\ p + l + 1 <= Len(t)
                              /\ t[p + l] = "|"
                              /\ t[p + l + 1] = NL}
                 IN IF Ls = {} THEN NoMatch
                    ELSE LET l == MaxOf(Ls)
                             r == p + l + 2
                             e == RowsEnd(t, r)
                         IN [ok |-> TRUE, start |-> i - 1, end |-> e - 1,
                             g1 |-> SubSeq(t, i + 1, eol - 2),
                             g2 |-> SubSeq(t, p, p + l - 1),
                             g3 |-> SubSeq(t, r, e - 1)]

\* table_regex of the code: the separator class is [-|\s]
MatchAt(t, i) == MatchAtG(SepClass, t, i)

\* table_regex.search(t, pos) with pos given as a 1-based position
SearchG(sep, t, from) ==
    LET S == {i \in from..Len(t) : MatchAtG(sep, t, i).ok}
    IN IF S = {} THEN NoMatch ELSE MatchAtG(sep, t, MinOf(S))

Search(t, from) == SearchG(SepClass, t, from)

\* list(table_regex.finditer(t)): each search starts where the last match ended
RECURSIVE FindAllG(_, _, _)
FindAllG(sep, t, from) ==
    LET m == SearchG(sep, t, from)
    IN IF ~m.ok THEN <<>> ELSE <<m>> \o FindAllG(sep, t, m.end + 1)

FindAll(t) == FindAllG(SepClass, t, 1)

\* str.strip()
Strip(s) ==
    LET NS == {j \in 1..Len(s) : ~IsSpace(s[j])}
    IN IF NS = {} THEN <<>> ELSE SubSeq(s, MinOf(NS), MaxOf(NS))

\* str.split(c)
RECURSIVE Split(_, _)
Split(s, c) ==
    LET j == IndexFrom(s, c, 1)
    IN IF j = 0 THEN <<s>> ELSE <<SubSeq(s, 1, j - 1)>> \o Split(PySuffix(s, j), c)

\* [x.strip() for x in items if x.strip()]
RECURSIVE StripNonEmpty(_)
StripNonEmpty(items) ==
    IF items = <<>> THEN <<>>
    ELSE (IF Strip(Head(items)) # <<>> THEN <<Strip(Head(items))>> ELSE <<>>)
         \o StripNonEmpty(Tail(items))

\* the row loop of parse_markdown_table over rows_text.split('\n')
RECURSIVE ParseRows(_)
ParseRows(lines) ==
    IF lines = <<>> THEN <<>>
    ELSE LET row_text == Head(lines)
             row == StripNonEmpty(Split(row_text, "|"))
         IN (IF Strip(row_text) = <<>> \/ row = <<>> THEN <<>> ELSE <<row>>)
            \o ParseRows(Tail(lines))

None == [found |-> FALSE, headers |-> <<>>, rows |-> <<>>]

\* the dict parse_markdown_table builds from a match
TableOf(m) ==
    [found |-> TRUE,
     headers |-> StripNonEmpty(Split(Strip(m.g1), "|")),
     rows |-> ParseRows(Split(Strip(m.g3), NL))]

parse_markdown_table(content) ==
    LET match == Search(content, 1)
    IN IF ~match.ok THEN None ELSE TableOf(match)

\* truth value of the returned object: None is false, a dict with keys is true
Truthy(d) == d.found

Digit(n) ==
    CASE n = 0 -> "0" [] n = 1 -> "1" [] n = 2 -> "2" [] n = 3 -> "3" [] n = 4 -> "4"
      [] n = 5 -> "5" [] n = 6 -> "6" [] n = 7 -> "7" [] n = 8 -> "8" [] OTHER -> "9"

\* str(n)
RECURSIVE Decimal(_)
Decimal(n) == IF n < 10 THEN <<Digit(n)>> ELSE Decimal(n \div 10) \o <<Digit(n % 10)>>

\* f"[TABLE_{index}]"
Placeholder(index) == <<"[", "T", "A", "B", "L", "E", "_">> \o Decimal(index) \o <<"]">>

\* the loop over enumerate(table_matches) that fills ocr_tables
RECURSIVE CollectTables(_, _, _)
CollectTables(document_text, table_matches, i) ==
    IF i > Len(table_matches) THEN <<>>
    ELSE LET match == table_matches[i]
             table_content == SubSeq(document_text, match.start + 1, match.end)
             table_data == parse_markdown_table(table_content)
         IN (IF Truthy(table_data)
             THEN <<[index |-> i - 1, start |-> match.start, end |-> match.end,
                     data |-> table_data]>>
             ELSE <<>>)
            \o CollectTables(document_text, table_matches, i + 1)

ReplaceOne(rem, tab) ==
    PyPrefix(rem, tab.start) \o Placeholder(tab.index) \o PySuffix(rem, tab.end)

\* for table in reversed(ocr_tables): remaining_text = ...
\* (ReplaceInOrder: the same loop without reversed())
RECURSIVE ReplaceForward(_, _, _)
ReplaceForward(rem, tabs, j) ==
    IF j > Len(tabs) THEN rem
    ELSE ReplaceForward(ReplaceOne(rem, tabs[j]), tabs, j + 1)
RECURSIVE ReplaceFrom(_, _, _)
ReplaceFrom(rem, tabs, j) ==
    IF j = 0 THEN rem
    ELSE ReplaceFrom(ReplaceOne(rem, tabs[j]), tabs, j - 1)

ReplaceInOrder(rem, tabs) == ReplaceForward(rem, tabs, 1)
ReplaceReversed(rem, tabs) == ReplaceFrom(rem, tabs, Len(tabs))

\* ", ".join(headers)
RECURSIVE JoinComma(_)
JoinComma(headers) ==
    IF headers = <<>> THEN <<>>
    ELSE IF Len(headers) = 1 THEN Head(headers)
    ELSE Head(headers) \o <<",", " ">> \o JoinComma(Tail(headers))

\* the number in f"Table {i+1}: ...", i from enumerate(ocr_tables)
\* (SummaryNumberIsIndex: f"Table {i}: ...")
SummaryNumberIsIndex(i) == i

SummaryNumber(i) == i + 1

\* lines 311-316: one line f"Table {i+1}: {headers}\n" for each entry of
\* ocr_tables (the title line before them is left out); nothing is appended
\* when ocr_tables is empty
TableInfo(tabs) ==
    [j \in 1..Len(tabs) |->
        <<"T", "a", "b", "l", "e", " ">> \o Decimal(SummaryNumber(j - 1))
            \o <<":", " ">> \o JoinComma(tabs[j].data.headers) \o <<NL>>]

-----------------------------------------------------------------------------
(* SpecText: the table code applied to one bounded text *)

\* number of blocks a text is made of
MaxBlocks == 4

Blocks ==
    { <<"|", "a", "|", NL>>,                          \* a pipe line
      <<"|", "-", "|", NL>>,                          \* a dash line
      <<"a", NL>>,                                    \* plain text
      <<NL>>,                                         \* a blank line
      <<"|", " ", "a", "|", "|", "b", " ", "|", NL>>, \* padded cells, an empty cell
      <<"|", "a", "|", "b", NL>>,                     \* a line that does not end in a pipe
      <<"a", "|", "a", "|">>,                         \* pipes after text, no newline
      <<"|", "a", "|", NL, "|", "-", "|", NL>> }      \* header and separator

RECURSIVE Flatten(_)
Flatten(bs) == IF bs = <<>> THEN <<>> ELSE Head(bs) \o Flatten(Tail(bs))

Texts == {Flatten(bs) : bs \in UNION {[1..n -> Blocks] : n \in 0..MaxBlocks}}

TextIdle ==
    /\ text = <<>>
    /\ spliced = FALSE
    /\ ocr_tables = <<>>
    /\ remaining_text = <<>>
    /\ table_info = <<>>
    /\ replied = FALSE
    /\ table = None
    /\ result_keys = {}

InitText ==
    /\ text \in Texts
    /\ spliced = FALSE
    /\ ocr_tables = <<>>
    /\ remaining_text = <<>>
    /\ table_info = <<>>
    /\ replied = FALSE
    /\ table = None
    /\ result_keys = {}

\* /ocr/chat, from "ocr_tables = []" to the table summary appended to
\* formatted_user_message (lines 262-317), with text as document_text
SpliceDocument ==
    /\ UNCHANGED notTextVars
    /\ ~spliced
    /\ spliced' = TRUE
    /\ LET table_matches == FindAll(text)
           tabs == IF table_matches # <<>>
                   THEN CollectTables(text, table_matches, 1) ELSE <<>>
       IN /\ ocr_tables' = tabs
          /\ remaining_text' = ReplaceReversed(text, tabs)
          /\ table_info' = TableInfo(tabs)
    /\ UNCHANGED <<text, replied, table, result_keys>>

\* /ocr/chat and /chat/with-document, from parse_markdown_table(assistant_message)
\* to the response dict, with text as assistant_message
ParseReply ==
    /\ UNCHANGED notTextVars
    /\ ~replied
    /\ replied' = TRUE
    /\ table' = parse_markdown_table(text)
    /\ result_keys' = {"response"}
                        \cup (IF Truthy(parse_markdown_table(text)) THEN {"table"} ELSE {})
    /\ UNCHANGED <<text, spliced, ocr_tables, remaining_text, table_info>>

NextText == SpliceDocument \/ ParseReply

-----------------------------------------------------------------------------
(* pdfTableExtract: one table's frame cleaned and written to a worksheet    *)
(* (_process_pdf lines 158-194, write_df_to_excel).  A frame is             *)
(* [columns, rows]: the column labels and the rows of cell values, every    *)
(* label and cell a sequence of characters.  Widths are kept in tenths of   *)
(* a character so that the factor 1.2 stays an integer.                     *)

\* "None", "nan", the two characters backslash and n, a form feed
NoneStr == <<"N", "o", "n", "e">>
NanStr == <<"n", "a", "n">>
BackslashN == <<"\\", "n">>
FormFeed == "\f"

\* df.empty: some axis has length 0
Empty(d) == Len(d.columns) = 0 \/ Len(d.rows) = 0

\* x.replace('\\n', '\n'): every backslash followed by n becomes a newline
RECURSIVE UnescapeNewlines(_)
UnescapeNewlines(x) ==
    IF Len(x) < 2 THEN x
    ELSE IF SubSeq(x, 1, 2) = BackslashN
         THEN <<NL>> \o UnescapeNewlines(SubSeq(x, 3, Len(x)))
         ELSE <<Head(x)>> \o UnescapeNewlines(Tail(x))

\* df.replace('None', ''), df.replace('nan', '') on whole cell values, then
\* df.map(...); map_ok is FALSE when DataFrame.map raises (its error is
\* caught and only logged, the cells then keep their backslash-n)
CleanCell(x, map_ok) ==
    LET y == IF x = NoneStr \/ x = NanStr THEN <<>> ELSE x
    IN IF map_ok THEN UnescapeNewlines(y) ELSE y

\* lines 164-171: the column labels are not touched
CleanFrame(d, map_ok) ==
    [columns |-> d.columns,
     rows |-> [r \in 1..Len(d.rows) |->
                 [c \in 1..Len(d.rows[r]) |-> CleanCell(d.rows[r][c], map_ok)]]]

\* [str(c) for c in current_cols] == [str(n) for n in expected_numeric_cols]
LooksLikeDefaultIndices(columns) ==
    \A c \in 1..Len(columns) : columns[c] = Decimal(c - 1)

write_header_row(columns) == ~LooksLikeDefaultIndices(columns)

\* start_row = 2 if write_header_row else 1
\* (StartRowOne: the rows always start in row 1)
StartRowOne(columns) == 1

start_row(columns) == IF write_header_row(columns) THEN 2 ELSE 1

\* str.splitlines(): no line for an empty string or after a final newline
SplitLines(s) ==
    IF s = <<>> THEN <<>>
    ELSE IF s[Len(s)] = NL THEN Split(SubSeq(s, 1, Len(s) - 1), NL)
    ELSE Split(s, NL)

\* max(len(line) for line in lines) if lines else 0
cell_max_line_length(s) ==
    LET lines == SplitLines(s)
    IN IF lines = <<>> THEN 0 ELSE MaxOf({Len(lines[i]) : i \in 1..Len(lines)})

\* min(max((max_length + 2) * 1.2, 8), 70), in tenths
\* (AdjustedWidthNoCap: the same without min(..., 70))
AdjustedWidthNoCap(max_length) == MaxOf({(max_length + 2) * 12, 80})

adjusted_width(max_length) == MinOf({MaxOf({(max_length + 2) * 12, 80}), 700})

\* openpyxl refuses a string holding a control character
\* (IllegalCharacterError from Cell.check_string)
Illegal(s) == \E i \in 1..Len(s) : s[i] = FormFeed

\* the cells write_df_to_excel assigns, in the order it assigns them:
\* the header cells if a header row is written, then the rows left to right
WriteOrder(d) ==
    LET n == Len(d.columns)
        hdr == IF write_header_row(d.columns)
               THEN [c \in 1..n |-> [row |-> 1, column |-> c, value |-> d.columns[c]]]
               ELSE <<>>
        data == [k \in 1..(Len(d.rows) * n) |->
                   LET r == ((k - 1) \div n) + 1
                       c == ((k - 1) % n) + 1
                   IN [row |-> start_row(d.columns) + r - 1, column |-> c,
                       value |-> d.rows[r][c]]]
    IN hdr \o data

\* the number of assignments carried out: all of them, or those before the
\* first one that raises
Assigned(order) ==
    LET Bad == {k \in 1..Len(order) : Illegal(order[k].value)}
    IN IF Bad = {} THEN Len(order) ELSE MinOf(Bad) - 1

NoSheet == [exists |-> FALSE, cells |-> <<>>, width |-> <<>>, raised |-> FALSE]

\* write_df_to_excel(df, sheet) on a fresh sheet: the cells of the sheet, the
\* column widths, and whether the call raised
write_df_to_excel(d) ==
    IF Empty(d) THEN [exists |-> TRUE, cells |-> <<>>, width |-> <<>>, raised |-> FALSE]
    ELSE LET order == WriteOrder(d)
             done == Assigned(order)
             At == {<<order[k].row, order[k].column>> : k \in 1..done}
             cells == [rc \in At |->
                         LET k == MaxOf({j \in 1..done :
                                     order[j].row = rc[1] /\ order[j].column = rc[2]})
                         IN order[k].value]
             column_max_lengths ==
                 [c \in 1..Len(d.columns) |->
                     MaxOf({cell_max_line_length(order[k].value) :
                              k \in {j \in 1..done : order[j].column = c}} \cup {0})]
         IN IF done < Len(order)
            THEN [exists |-> TRUE, cells |-> cells, width |-> <<>>, raised |-> TRUE]
            ELSE [exists |-> TRUE, cells |-> cells,
                  width |-> [c \in 1..Len(d.columns) |->
                               adjusted_width(column_max_lengths[c])],
                  raised |-> FALSE]

\* the frames of SpecExcel
Name == <<"N", "a", "m", "e">>
Age == <<"A", "g", "e">>
LongCell == [i \in 1..60 |-> "x"]
MidCell == [i \in 1..10 |-> "x"]

ColumnLabels ==
    { <<Decimal(0)>>, <<Name>>,
      <<Decimal(0), Decimal(1)>>, <<Decimal(1), Decimal(0)>>, <<Name, Age>>,
      <<<<"A", NL, "B">>, Age>>, <<<<"A", "\\", "n", "B">>, Age>> }

CellValues ==
    { <<>>, <<"0">>, <<" ", "0", " ">>, <<"x">>, NoneStr, NanStr,
      <<"a", "\\", "n", "b">>, <<"a", "b", NL, "c">>, LongCell, MidCell,
      <<"x", FormFeed>> }

RowValues(n) ==
    IF n = 1 THEN {<<v>> : v \in CellValues}
    ELSE { <<<<"0">>, <<"1">>>>, <<<<" ", "0">>, <<"1", " ">>>>,
           <<<<"x">>, NoneStr>>, <<NanStr, <<"a", "\\", "n", "b">>>>,
           <<<<"a", "b", NL, "c">>, <<>>>>, <<LongCell, <<"x">>>>, <<MidCell, <<"x", NL, "y">>>>,
           <<<<"x">>, <<"x", FormFeed>>>> }

Frames ==
    UNION { { [columns |-> cs, rows |-> rs] :
                rs \in UNION {[1..k -> RowValues(Len(cs))] : k \in 0..MaxRows} } :
            cs \in ColumnLabels }

NoFrame == [columns |-> <<>>, rows |-> <<>>]

XlIdle ==
    /\ df = NoFrame
    /\ cleaned = NoFrame
    /\ sheet = NoSheet
    /\ xl_pc = "idle"

InitExcel ==
    /\ df \in Frames
    /\ cleaned = NoFrame
    /\ sheet = NoSheet
    /\ xl_pc = "table"

\* _process_pdf lines 158-194 for one table: skip an empty frame, clean the
\* cells, create the sheet and write the frame to it
ProcessFrame(map_ok) ==
    /\ UNCHANGED notXlVars
    /\ xl_pc = "table"
    /\ xl_pc' = "done"
    /\ df' = df
    /\ IF Empty(df)
       THEN /\ cleaned' = df
            /\ sheet' = NoSheet
       ELSE /\ cleaned' = CleanFrame(df, map_ok)
            /\ sheet' = write_df_to_excel(CleanFrame(df, map_ok))

NextExcel == \E map_ok \in BOOLEAN : ProcessFrame(map_ok)

-----------------------------------------------------------------------------
(* pdfTableExtract: _process_pdf on one document.  The detector, the        *)
(* formatter and the PDF binding are libraries: what they return or raise   *)
(* is chosen by the environment, page by page and table by table.  A sheet  *)
(* of the workbook is [title, written]; written is TRUE when                *)
(* write_df_to_excel returned for it.                                       *)

\* f"Page_{page_num}-Table_{table_num}"
sheet_title_base(p, t) ==
    <<"P", "a", "g", "e", "_">> \o Decimal(p)
        \o <<"-", "T", "a", "b", "l", "e", "_">> \o Decimal(t)

NoTablesFound ==
    <<"N", "o", " ", "T", "a", "b", "l", "e", "s", " ", "F", "o", "u", "n", "d">>

\* workbook.sheetnames
sheetnames(wb) == [i \in 1..Len(wb) |-> wb[i].title]

\* while sheet_title in workbook.sheetnames: f"{sheet_title_base}_{counter}"
\* (WithCounterSkipped: the loop with the counter one ahead)
WithCounterSkipped(names, base, counter) == base \o <<"_">> \o Decimal(counter + 1)

RECURSIVE WithCounter(_, _, _)
WithCounter(names, base, counter) ==
    LET t == base \o <<"_">> \o Decimal(counter)
    IN IF \E i \in 1..Len(names) : names[i] = t
       THEN WithCounter(names, base, counter + 1)
       ELSE t

sheet_title(names, base) ==
    IF \E i \in 1..Len(names) : names[i] = base
    THEN WithCounter(names, base, 1)
    ELSE base

\* what can happen to one detected table (lines 151-194)
TableOutcomes ==
    {"no_structure", "empty", "raises_before_sheet", "raises_after_sheet", "written"}

PdfIdle ==
    /\ pdf_pc = "idle"
    /\ doc = "none"
    /\ doc_closes = 0
    /\ num_pages = 0
    /\ page_num = 0
    /\ tables = 0
    /\ table_num = 0
    /\ workbook = <<>>
    /\ sheets_added_count = 0
    /\ failed = FALSE
    /\ table_outcome = "none"
    /\ page_errors = 0
    /\ saved = <<>>

\* lines 122-130: the workbook without its default sheet, doc = None
InitPdf ==
    /\ pdf_pc = "open"
    /\ doc = "none"
    /\ doc_closes = 0
    /\ num_pages = 0
    /\ page_num = 0
    /\ tables = 0
    /\ table_num = 0
    /\ workbook = <<>>
    /\ sheets_added_count = 0
    /\ failed = FALSE
    /\ table_outcome = "none"
    /\ page_errors = 0
    /\ saved = <<>>

\* line 134: doc = PyPDFium2Document(pdf_path).  When it raises, doc stays
\* None, the finally clause closes nothing and RuntimeError leaves the function
OpenDocument(ok, n) ==
    /\ UNCHANGED notPdfVars
    /\ pdf_pc = "open"
    /\ IF ok
       THEN /\ doc' = "open"
            /\ num_pages' = n
            /\ pdf_pc' = "pages"
            /\ failed' = FALSE
       ELSE /\ doc' = "none"
            /\ num_pages' = 0
            /\ pdf_pc' = "raised"
            /\ failed' = TRUE
    /\ UNCHANGED <<doc_closes, page_num, tables, table_num, workbook,
                   sheets_added_count, table_outcome, page_errors, saved>>

\* where _process_pdf goes after detector.extract(page): into the loop over
\* the tables (line 147), or on to the next page, by continue (line 144) or
\* through the except clause of the page (lines 205-206)
\* (AfterDetectorAborts: an error of the detector ends the loop over the pages)
AfterDetectorAborts(found) ==
    IF found > 0 THEN "tables" ELSE IF found = 0 THEN "pages" ELSE "closing"

AfterDetector(found) == IF found > 0 THEN "tables" ELSE "pages"

\* lines 138-145, 205-206: the next page and detector.extract(page) on it.
\* found = -1: the detector raises; 0: no tables; k > 0: k tables.
\* page_errors counts the errors logged at line 206.
NextPage(found) ==
    /\ UNCHANGED notPdfVars
    /\ pdf_pc = "pages"
    /\ page_num < num_pages
    /\ page_num' = page_num + 1
    /\ table_num' = 0
    /\ tables' = IF found > 0 THEN found ELSE 0
    /\ pdf_pc' = AfterDetector(found)
    /\ page_errors' = IF found < 0 THEN page_errors + 1 ELSE page_errors
    /\ UNCHANGED <<doc, doc_closes, num_pages, workbook, sheets_added_count,
                   failed, table_outcome, saved>>

\* line 138 raising while the document is iterated: the except clause at 211
IterationFails ==
    /\ UNCHANGED notPdfVars
    /\ pdf_pc = "pages"
    /\ failed' = TRUE
    /\ pdf_pc' = "closing"
    /\ UNCHANGED <<doc, doc_closes, num_pages, page_num, tables, table_num,
                   workbook, sheets_added_count, table_outcome, page_errors, saved>>

\* line 208: the loop is over
PagesDone ==
    /\ UNCHANGED notPdfVars
    /\ pdf_pc = "pages"
    /\ page_num = num_pages
    /\ pdf_pc' = "closing"
    /\ UNCHANGED <<doc, doc_closes, num_pages, page_num, tables, table_num,
                   workbook, sheets_added_count, failed, table_outcome, page_errors, saved>>

\* lines 147-194: one table of the page
ProcessTable(o) ==
    /\ UNCHANGED notPdfVars
    /\ pdf_pc = "tables"
    /\ table_num < tables
    /\ table_num' = table_num + 1
    /\ table_outcome' = o
    /\ LET title == sheet_title(sheetnames(workbook),
                                sheet_title_base(page_num, table_num + 1))
       IN CASE o = "written" ->
                 /\ workbook' = Append(workbook, [title |-> title, written |-> TRUE])
                 /\ sheets_added_count' = sheets_added_count + 1
            [] o = "raises_after_sheet" ->
                 /\ workbook' = Append(workbook, [title |-> title, written |-> FALSE])
                 /\ sheets_added_count' = sheets_added_count
            [] OTHER ->
                 /\ workbook' = workbook
                 /\ sheets_added_count' = sheets_added_count
    /\ pdf_pc' = IF table_num + 1 = tables THEN "pages" ELSE "tables"
    /\ UNCHANGED <<doc, doc_closes, num_pages, page_num, tables, failed,
                   page_errors, saved>>

\* lines 217-224: doc.close() if doc is truthy; an error of close() is only
\* logged.  A document object without pages may count as false.
CloseDocument(truthy, close_ok) ==
    /\ UNCHANGED notPdfVars
    /\ pdf_pc = "closing"
    /\ truthy \/ num_pages = 0
    /\ IF truthy
       THEN /\ doc_closes' = doc_closes + 1
            /\ doc' = IF close_ok THEN "closed" ELSE "open"
       ELSE UNCHANGED <<doc, doc_closes>>
    /\ pdf_pc' = IF failed THEN "raised" ELSE "saving"
    /\ UNCHANGED <<num_pages, page_num, tables, table_num, workbook,
                   sheets_added_count, failed, table_outcome, page_errors, saved>>

\* lines 227-231: if sheets_added_count == 0: if not workbook.sheetnames:
\* workbook.create_sheet("No Tables Found")
\* (NoPlaceholder: the same without these lines)
NoPlaceholder(wb, count) == wb

WithPlaceholder(wb, count) ==
    IF count = 0
    THEN IF sheetnames(wb) = <<>>
         THEN Append(wb, [title |-> NoTablesFound, written |-> FALSE])
         ELSE wb
    ELSE wb

\* lines 227-249: the placeholder sheet, workbook.save, the return
SaveWorkbook(save_ok) ==
    /\ UNCHANGED notPdfVars
    /\ pdf_pc = "saving"
    /\ workbook' = WithPlaceholder(workbook, sheets_added_count)
    /\ saved' = sheetnames(workbook')
    /\ pdf_pc' = IF save_ok THEN "returned" ELSE "raised"
    /\ failed' = ~save_ok
    /\ UNCHANGED <<doc, doc_closes, num_pages, page_num, tables, table_num,
                   sheets_added_count, table_outcome,
                   page_errors>>

NextPdf ==
    \/ \E ok \in BOOLEAN, n \in 0..MaxPages : OpenDocument(ok, n)
    \/ \E found \in -1..MaxTables : NextPage(found)
    \/ IterationFails
    \/ PagesDone
    \/ \E o \in TableOutcomes : ProcessTable(o)
    \/ \E truthy \in BOOLEAN, close_ok \in BOOLEAN : CloseDocument(truthy, close_ok)
    \/ \E save_ok \in BOOLEAN : SaveWorkbook(save_ok)

-----------------------------------------------------------------------------
(* SpecOcr: concurrent requests after their upload is stored.  Every        *)
(* handler runs on the one event-loop thread: a step of a handler is the    *)
(* code between two awaits, and a blocking call made by a handler keeps     *)
(* the thread (loop_holder) until it ends.  A worker is the thread          *)
(* asyncio.to_thread starts for _perform_mistral_ocr or _process_pdf.       *)

Requests == 1..MaxRequests

Kinds == {"ocr_process", "ocr_chat", "chat_with_document", "extract_tables"}

\* the types an exception of the remote client may have
ErrorTypes == {"SDKError", "RuntimeError"}

NoError == [step |-> "none", type |-> "none", message |-> "none"]

\* what a remote step (or _process_pdf) raises: the step is kept, str(e) is
\* a text of that step
RaisedBy(step, type) == [step |-> step, type |-> type, message |-> step]

\* lines 130-132: raise RuntimeError(f"Unexpected error during OCR: {e}") from e
WrapInRuntimeError(e) ==
    [type |-> "RuntimeError", text |-> <<"Unexpected error during OCR: ", e.message>>]

\* _process_pdf line 216: raise RuntimeError(f"PDF processing failed: {e}") from e
WrapPdfError(e) ==
    [type |-> "RuntimeError", text |-> <<"PDF processing failed: ", e.message>>]

\* the exception the worker of a request of kind k ends with
WorkerException(k, e) ==
    IF k = "extract_tables" THEN WrapPdfError(e) ELSE WrapInRuntimeError(e)

\* line 168 (pdfTableExtract line 279):
\* detail=f"OCR processing failed: ({type(e).__name__}) {str(e)}"
ProcessingFailedDetail(k, e) ==
    [type_name |-> WorkerException(k, e).type, text |-> WorkerException(k, e).text]

NoDetail == [type_name |-> "none", text |-> <<>>]

Response(st, detail, res) == [status |-> st, detail |-> detail, result_of |-> res]

OcrIdle ==
    /\ kind = [r \in Requests |-> "none"]
    /\ handler = [r \in Requests |-> "idle"]
    /\ thread = [r \in Requests |-> "none"]
    /\ calls = [r \in Requests |-> <<>>]
    /\ remote_error = [r \in Requests |-> NoError]
    /\ results = [r \in Requests |-> 0]
    /\ responses = [r \in Requests |-> <<>>]
    /\ loop_holder = 0

InitOcr ==
    /\ kind = [r \in Requests |-> "none"]
    /\ handler = [r \in Requests |-> "new"]
    /\ thread = [r \in Requests |-> "none"]
    /\ calls = [r \in Requests |-> <<>>]
    /\ remote_error = [r \in Requests |-> NoError]
    /\ results = [r \in Requests |-> 0]
    /\ responses = [r \in Requests |-> <<>>]
    /\ loop_holder = 0

\* The handler of request r runs up to its first remote work: the upload
\* handlers store the file and await process_..._with_timeout, which starts
\* the worker thread; /chat/with-document calls the chat model itself.
Arrive(r, k) ==
    /\ UNCHANGED notOcrVars
    /\ handler[r] = "new"
    /\ loop_holder = 0
    /\ kind' = [kind EXCEPT ![r] = k]
    /\ IF k = "chat_with_document"
       THEN /\ handler' = [handler EXCEPT ![r] = "chatting"]
            /\ calls' = [calls EXCEPT ![r] = Append(@, "chat")]
            /\ loop_holder' = r
            /\ UNCHANGED thread
       ELSE /\ handler' = [handler EXCEPT ![r] = "awaiting"]
            /\ thread' = [thread EXCEPT ![r] = "started"]
            /\ UNCHANGED <<calls, loop_holder>>
    /\ UNCHANGED <<remote_error, results, responses>>

\* the worker thread begins: mistral_client.files.upload (line 89), or
\* _process_pdf
ThreadStarts(r) ==
    /\ UNCHANGED notOcrVars
    /\ thread[r] = "started"
    /\ IF kind[r] = "extract_tables"
       THEN /\ thread' = [thread EXCEPT ![r] = "pdf"]
            /\ UNCHANGED calls
       ELSE /\ thread' = [thread EXCEPT ![r] = "upload"]
            /\ calls' = [calls EXCEPT ![r] = Append(@, "upload")]
    /\ UNCHANGED <<kind, handler, remote_error, results, responses, loop_holder>>

\* what _perform_mistral_ocr does after a remote call returned: the next
\* call (lines 99, 104), or return markdown_content (line 128)
\* (NextStepSkipsUrl: the OCR call made right after the upload)
NextStepSkipsUrl(step) ==
    CASE step = "upload" -> "ocr"
      [] step = "signed_url" -> "ocr"
      [] OTHER -> "returned"

NextStep(step) ==
    CASE step = "upload" -> "signed_url"
      [] step = "signed_url" -> "ocr"
      [] OTHER -> "returned"

\* the handler is suspended in asyncio.wait_for (lines 154-157)
\* (AwaitingOrDone: a handler that has answered is resumed again)
AwaitingOrDone(h) == h \in {"awaiting", "done"}

Awaiting(h) == h = "awaiting"

\* the remote call the worker waits for ends (lines 89-111): the worker goes
\* on to the next call, returns the OCR text, or raises
RemoteCallEnds(r, ok, type) ==
    /\ UNCHANGED notOcrVars
    /\ thread[r] \in {"upload", "signed_url", "ocr"}
    /\ IF ~ok
       THEN /\ thread' = [thread EXCEPT ![r] = "raised"]
            /\ remote_error' = [remote_error EXCEPT ![r] = RaisedBy(thread[r], type)]
            /\ UNCHANGED <<calls, results>>
       ELSE /\ UNCHANGED remote_error
            /\ thread' = [thread EXCEPT ![r] = NextStep(thread[r])]
            /\ IF NextStep(thread[r]) = "returned"
               THEN /\ results' = [results EXCEPT ![r] = r]
                    /\ UNCHANGED calls
               ELSE /\ calls' = [calls EXCEPT ![r] = Append(@, NextStep(thread[r]))]
                    /\ UNCHANGED results
    /\ UNCHANGED <<kind, handler, responses, loop_holder>>

\* _process_pdf returns the workbook bytes or raises RuntimeError
PdfEnds(r, ok, type) ==
    /\ UNCHANGED notOcrVars
    /\ thread[r] = "pdf"
    /\ IF ok
       THEN /\ thread' = [thread EXCEPT ![r] = "returned"]
            /\ results' = [results EXCEPT ![r] = r]
            /\ UNCHANGED remote_error
       ELSE /\ thread' = [thread EXCEPT ![r] = "raised"]
            /\ remote_error' = [remote_error EXCEPT ![r] = RaisedBy("pdf", type)]
            /\ UNCHANGED results
    /\ UNCHANGED <<kind, handler, calls, responses, loop_holder>>

\* asyncio.wait_for gives up (lines 162-164): 504; the worker is left alone
TimeoutFires(r) ==
    /\ UNCHANGED notOcrVars
    /\ handler[r] = "awaiting"
    /\ loop_holder = 0
    /\ handler' = [handler EXCEPT ![r] = "done"]
    /\ responses' = [responses EXCEPT ![r] = Append(@, Response(504, NoDetail, 0))]
    /\ UNCHANGED <<kind, thread, calls, remote_error, results, loop_holder>>

\* The event loop resumes the handler with what its worker ended with.
\* /ocr/chat goes on to the chat call, made by the handler itself
\* (lines 329-353).
ResumeHandler(r) ==
    /\ UNCHANGED notOcrVars
    /\ Awaiting(handler[r])
    /\ thread[r] \in {"returned", "raised"}
    /\ loop_holder = 0
    /\ IF thread[r] = "raised"
       THEN /\ handler' = [handler EXCEPT ![r] = "done"]
            /\ responses' = [responses EXCEPT ![r] =
                 Append(@, Response(500, ProcessingFailedDetail(kind[r], remote_error[r]), 0))]
            /\ UNCHANGED <<calls, loop_holder>>
       ELSE IF kind[r] = "ocr_chat"
       THEN /\ handler' = [handler EXCEPT ![r] = "chatting"]
            /\ calls' = [calls EXCEPT ![r] = Append(@, "chat")]
            /\ loop_holder' = r
            /\ UNCHANGED responses
       ELSE /\ handler' = [handler EXCEPT ![r] = "done"]
            /\ responses' = [responses EXCEPT ![r] =
                 Append(@, Response(200, NoDetail, results[r]))]
            /\ UNCHANGED <<calls, loop_holder>>
    /\ UNCHANGED <<kind, thread, remote_error, results>>

\* the chat or agent completion returns or raises (lines 329-392, 440-468):
\* detail=f"Processing failed: {str(e)}"
ChatEnds(r, ok, type) ==
    /\ UNCHANGED notOcrVars
    /\ handler[r] = "chatting"
    /\ loop_holder = r
    /\ loop_holder' = 0
    /\ handler' = [handler EXCEPT ![r] = "done"]
    /\ responses' = [responses EXCEPT ![r] =
         Append(@, IF ok THEN Response(200, NoDetail, r)
                   ELSE Response(500, [type_name |-> "none",
                                       text |-> <<"Processing failed: ", "chat">>], 0))]
    /\ remote_error' = IF ok THEN remote_error
                       ELSE [remote_error EXCEPT ![r] = RaisedBy("chat", type)]
    /\ UNCHANGED <<kind, thread, calls, results>>

NextOcr ==
    \/ \E r \in Requests, k \in Kinds : Arrive(r, k)
    \/ \E r \in Requests : ThreadStarts(r)
    \/ \E r \in Requests, ok \in BOOLEAN, type \in ErrorTypes : RemoteCallEnds(r, ok, type)
    \/ \E r \in Requests, ok \in BOOLEAN, type \in ErrorTypes : PdfEnds(r, ok, type)
    \/ \E r \in Requests : TimeoutFires(r)
    \/ \E r \in Requests : ResumeHandler(r)
    \/ \E r \in Requests, ok \in BOOLEAN, type \in ErrorTypes : ChatEnds(r, ok, type)

-----------------------------------------------------------------------------
(* Spec: one upload request *)

InitReq ==
    /\ mistral_client \in BOOLEAN
    /\ endpoint = "none"
    /\ pc = "idle"
    /\ upload_total = 0
    /\ file_size = 0
    /\ written = 0
    /\ temp_file_path = FALSE
    /\ on_disk = FALSE
    /\ created = FALSE
    /\ unlinks = 0
    /\ reads_after_over = 0
    /\ worker = "none"
    /\ processed = FALSE
    /\ timed_out = FALSE
    /\ io_fault = FALSE
    /\ status = 0
    /\ req_filename = <<>>
    /\ req_content_type = "none"
    /\ req_x_file_type = "none"
    /\ treated_as = "none"

\* A request arrives: the handler validates it and, if it passes, creates the
\* temp file and reaches the first await file.read(chunk_size).
Request(ep, filename, content_type, x_file_type, total) ==
    /\ pc = "idle"
    /\ UNCHANGED notReqVars
    /\ req_filename' = filename
    /\ req_content_type' = content_type
    /\ req_x_file_type' = x_file_type
    /\ treated_as' = TreatedAs(ep, mistral_client, filename, content_type, x_file_type)
    /\ endpoint' = ep
    /\ upload_total' = total
    /\ LET v == ValidationStatus(ep, mistral_client, filename, content_type, x_file_type)
       IN IF v # 0
          THEN /\ pc' = "done"
               /\ status' = v
               /\ UNCHANGED <<temp_file_path, on_disk, created>>
          ELSE /\ pc' = "reading"
               /\ status' = 0
               /\ temp_file_path' = TRUE
               /\ on_disk' = TRUE
               /\ created' = TRUE
    /\ UNCHANGED <<mistral_client, file_size, written, unlinks, reads_after_over,
                   worker, processed, timed_out, io_fault>>

\* asyncio.to_thread(...) under asyncio.wait_for: the worker thread starts
StartProcessing ==
    /\ pc' = "awaiting"
    /\ worker' = "running"
    /\ processed' = TRUE

\* One iteration of the upload loop of /ocr/process and /ocr/chat
ReadChunkOcr ==
    /\ UNCHANGED notReqVars
    /\ UNCHANGED reqInputs
    /\ pc = "reading"
    /\ endpoint \in OcrEndpoints
    /\ LET n == NextChunkLen(upload_total, file_size)
       IN IF n = 0
          THEN \* not chunk: break, leave the with block, start the OCR
               /\ StartProcessing
               /\ UNCHANGED <<file_size, written, temp_file_path, on_disk, unlinks,
                              reads_after_over, status>>
          ELSE /\ file_size' = file_size + n
               /\ reads_after_over' =
                     IF Oversize(file_size, Ceiling(endpoint))
                     THEN reads_after_over + 1 ELSE reads_after_over
               /\ IF Oversize(file_size + n, Ceiling(endpoint))
                  THEN \* close, unlink, temp_file_path = None, raise 413;
                       \* the finally block then finds temp_file_path None
                       /\ on_disk' = FALSE
                       /\ unlinks' = unlinks + 1
                       /\ temp_file_path' = FALSE
                       /\ pc' = "done"
                       /\ status' = 413
                       /\ UNCHANGED <<written, worker, processed>>
                  ELSE /\ written' = written + n
                       /\ UNCHANGED <<pc, status, temp_file_path, on_disk, unlinks,
                                      worker, processed>>
    /\ UNCHANGED <<mistral_client, endpoint, upload_total, created, timed_out, io_fault>>

\* One iteration of the upload loop of /extract-tables; the size is tested
\* after the loop, when the with block has closed the file
ReadChunkExtract ==
    /\ UNCHANGED notReqVars
    /\ UNCHANGED reqInputs
    /\ pc = "reading"
    /\ endpoint = "extract_tables"
    /\ LET n == NextChunkLen(upload_total, file_size)
       IN IF n = 0
          THEN IF Oversize(file_size, Ceiling(endpoint))
               THEN /\ Leave(413)
                    /\ UNCHANGED <<file_size, written, temp_file_path,
                                   reads_after_over, worker, processed>>
               ELSE /\ StartProcessing
                    /\ UNCHANGED <<file_size, written, temp_file_path, on_disk,
                                   unlinks, reads_after_over, status>>
          ELSE /\ file_size' = file_size + n
               /\ written' = written + n
               /\ reads_after_over' =
                     IF Oversize(file_size, Ceiling(endpoint))
                     THEN reads_after_over + 1 ELSE reads_after_over
               /\ UNCHANGED <<pc, status, temp_file_path, on_disk, unlinks,
                              worker, processed>>
    /\ UNCHANGED <<mistral_client, endpoint, upload_total, created, timed_out, io_fault>>

\* await file.read(...) or temp_file.write(...) raises: except Exception -> 500
ReadFail ==
    /\ UNCHANGED notReqVars
    /\ UNCHANGED reqInputs
    /\ pc = "reading"
    /\ io_fault' = TRUE
    /\ Leave(500)
    /\ UNCHANGED <<mistral_client, endpoint, upload_total, file_size, written,
                   temp_file_path, created, reads_after_over, worker, processed,
                   timed_out>>

\* The worker thread (_perform_mistral_ocr, _process_pdf) returns or raises.
\* After a timeout it is not cancelled and still ends this way.
WorkerEnds(outcome) ==
    /\ UNCHANGED notReqVars
    /\ UNCHANGED reqInputs
    /\ worker = "running"
    /\ worker' = outcome
    /\ UNCHANGED <<mistral_client, endpoint, pc, upload_total, file_size, written,
                   temp_file_path, on_disk, created, unlinks, reads_after_over,
                   processed, timed_out, io_fault, status>>

\* asyncio.wait_for gives up: TimeoutError -> HTTPException(504) -> finally
Timeout ==
    /\ UNCHANGED notReqVars
    /\ UNCHANGED reqInputs
    /\ pc = "awaiting"
    /\ timed_out' = TRUE
    /\ Leave(OutcomeStatus("timeout"))
    /\ UNCHANGED <<mistral_client, endpoint, upload_total, file_size, written,
                   temp_file_path, created, reads_after_over, worker, processed,
                   io_fault>>

\* await asyncio.wait_for(asyncio.to_thread(...)) gives the handler a result
\* or an exception of the worker only when the worker has ended
\* (WorkerEndedOrRunning: the handler goes on while the worker still runs)
WorkerEndedOrRunning(w) == w \in {"returned", "raised", "running"}

WorkerEnded(w) == w \in {"returned", "raised"}

\* The event loop resumes the handler with the worker's outcome.  /ocr/chat
\* then splices the tables and calls the chat model (chat_ok: it answered).
Resume(chat_ok) ==
    /\ UNCHANGED notReqVars
    /\ UNCHANGED reqInputs
    /\ pc = "awaiting"
    /\ WorkerEnded(worker)
    /\ Leave(IF OutcomeStatus(worker) = 200 /\ endpoint = "ocr_chat" /\ ~chat_ok
             THEN 500 ELSE OutcomeStatus(worker))
    /\ UNCHANGED <<mistral_client, endpoint, upload_total, file_size, written,
                   temp_file_path, created, reads_after_over, worker, processed,
                   timed_out, io_fault>>

\* a client posts a file to one of the upload endpoints
ReceiveRequest ==
    /\ pc = "idle"
    /\ \E ep \in Endpoints, fn \in Filenames, ct \in ContentTypes, x \in XFileTypes :
          \E total \in UploadSizes(ep) : Request(ep, fn, ct, x, total)

Next ==
    \/ ReceiveRequest
    \/ ReadChunkOcr
    \/ ReadChunkExtract
    \/ ReadFail
    \/ \E o \in {"returned", "raised"} : WorkerEnds(o)
    \/ Timeout
    \/ \E chat_ok \in BOOLEAN : Resume(chat_ok)

Init == InitReq /\ TextIdle /\ XlIdle /\ PdfIdle /\ OcrIdle

Spec == Init /\ [][Next]_vars

\* the request variables, at rest
ReqIdle ==
    /\ mistral_client = TRUE
    /\ endpoint = "none"
    /\ pc = "idle"
    /\ upload_total = 0
    /\ file_size = 0
    /\ written = 0
    /\ temp_file_path = FALSE
    /\ on_disk = FALSE
    /\ created = FALSE
    /\ unlinks = 0
    /\ reads_after_over = 0
    /\ worker = "none"
    /\ processed = FALSE
    /\ timed_out = FALSE
    /\ io_fault = FALSE
    /\ status = 0
    /\ req_filename = <<>>
    /\ req_content_type = "none"
    /\ req_x_file_type = "none"
    /\ treated_as = "none"

InitTextSpec == ReqIdle /\ InitText /\ XlIdle /\ PdfIdle /\ OcrIdle

SpecText == InitTextSpec /\ [][NextText]_vars

InitExcelSpec == ReqIdle /\ TextIdle /\ InitExcel /\ PdfIdle /\ OcrIdle

SpecExcel == InitExcelSpec /\ [][NextExcel]_vars

InitPdfSpec == ReqIdle /\ TextIdle /\ XlIdle /\ InitPdf /\ OcrIdle

SpecPdf == InitPdfSpec /\ [][NextPdf]_vars

InitOcrSpec == ReqIdle /\ TextIdle /\ XlIdle /\ PdfIdle /\ InitOcr

SpecOcr == InitOcrSpec /\ [][NextOcr]_vars

-----------------------------------------------------------------------------
(* Properties of the upload handlers, checked under Spec *)

C4_CeilingEnforcedWhileReading ==
    created => (written <= Ceiling(endpoint) /\ reads_after_over = 0)

-----------------------------------------------------------------------------
(* Properties of the table code, checked under SpecText *)

\* A table as the specification describes it: a pipe header line, ONE
\* separator line of dashes, pipes and blanks, then the pipe row lines.
\* It differs from the code's pattern only in that the separator may not
\* run over a line end.
LineSepClass == {"-", "|", " "}
LineTables(t) == FindAllG(LineSepClass, t, 1)

\* t with the j-th span of ms replaced by [TABLE_{j-1}], all at once
RECURSIVE ReplaceSpans(_, _, _, _)
ReplaceSpans(t, ms, j, pos) ==
    IF j > Len(ms) THEN PySuffix(t, pos)
    ELSE SubSeq(t, pos + 1, ms[j].start) \o Placeholder(j - 1)
         \o ReplaceSpans(t, ms, j + 1, ms[j].end)

\* C5 (as claimed): with k the number of well-formed tables of the text
\* (header line, separator line, row lines), the spliced text is the text
\* with exactly those k spans replaced, left to right, by [TABLE_0] ..
\* [TABLE_{k-1}], every other character unchanged, and ocr_tables has k entries.
C5_SpliceReplacesExactlyTheTables ==
    spliced => /\ Len(ocr_tables) = Len(LineTables(text))
               /\ remaining_text = ReplaceSpans(text, LineTables(text), 1, 0)

\* C6: after the splicing step the table pattern no longer matches anywhere
\* in the spliced text.
C6_NoTableLeftAfterSplice ==
    spliced => FindAll(remaining_text) = <<>>

\* two tables were replaced
C6_Witness ==
    /\ spliced /\ Len(ocr_tables) = 2
    /\ remaining_text # text

\* the row lines of a table, split on pipes, trimmed, empty fields dropped,
\* rows without a field omitted
RECURSIVE RowsOfLines(_)
RowsOfLines(lines) ==
    IF lines = <<>> THEN <<>>
    ELSE (IF StripNonEmpty(Split(Head(lines), "|")) = <<>> THEN <<>>
          ELSE <<StripNonEmpty(Split(Head(lines), "|"))>>)
         \o RowsOfLines(Tail(lines))

\* header line and row lines of the first table of the text
FirstLineTable(t) == SearchG(LineSepClass, t, 1)
HeaderLine(m) == <<"|">> \o m.g1 \o <<"|">>
RowLines(m) == IF m.g3 = <<>> THEN <<>> ELSE Split(m.g3, NL)

NoBlankEnds(cells) ==
    \A i \in 1..Len(cells) :
        /\ cells[i] # <<>>
        /\ ~IsSpace(cells[i][1])
        /\ ~IsSpace(cells[i][Len(cells[i])])

\* C7 (as claimed): when parse_markdown_table finds a table, its headers are
\* the trimmed non-empty fields of the header line and its rows are, in
\* order, the trimmed non-empty fields of each row line, rows without any
\* field omitted; no header or cell is empty or has blanks at its ends.
C7_HeadersAndRowsAreTheLineFields ==
    (replied /\ table.found) =>
        /\ FirstLineTable(text).ok
        /\ table.headers = StripNonEmpty(Split(HeaderLine(FirstLineTable(text)), "|"))
        /\ table.rows = RowsOfLines(RowLines(FirstLineTable(text)))
        /\ NoBlankEnds(table.headers)
        /\ \A r \in 1..Len(table.rows) : NoBlankEnds(table.rows[r])

\* C8 (as claimed): parse_markdown_table returns None exactly when the text
\* holds no header line followed by a separator line; otherwise it returns
\* the structure of the leftmost table alone; the response has the key
\* "table" exactly when the reply holds such a table.
C8_FirstTableOnly ==
    replied =>
        /\ (table = None) <=> ~FirstLineTable(text).ok
        /\ table.found =>
              /\ table.headers = StripNonEmpty(Split(HeaderLine(FirstLineTable(text)), "|"))
              /\ table.rows = RowsOfLines(RowLines(FirstLineTable(text)))
        /\ ("table" \in result_keys) <=> FirstLineTable(text).ok

-----------------------------------------------------------------------------
(* Properties of the worksheet writer, checked under SpecExcel *)

\* the first data row, every cell trimmed, is the sequence "0", "1", ...
FirstRowIsIndices(d) ==
    /\ d.rows # <<>>
    /\ \A c \in 1..Len(d.columns) : Strip(d.rows[1][c]) = Decimal(c - 1)

\* a sheet holding exactly the given rows, the first of them in row first_row
RowsFrom(rows, n, first_row) ==
    [rc \in (first_row..(first_row + Len(rows) - 1)) \X (1..n) |->
        rows[rc[1] - first_row + 1][rc[2]]]

\* C9 (as claimed): when the column labels are the positional indices and the
\* first data row, trimmed, is that same index sequence, the first row is
\* dropped and the sheet holds the remaining rows from row 1 on; when the
\* labels are not the positional indices such a first row is written
\* unchanged, below the header row.
C9_StrayIndexRowDropped ==
    (xl_pc = "done" /\ sheet.exists /\ ~sheet.raised /\ FirstRowIsIndices(cleaned)) =>
        IF LooksLikeDefaultIndices(cleaned.columns)
        THEN sheet.cells = RowsFrom(Tail(cleaned.rows), Len(cleaned.columns), 1)
        ELSE \A c \in 1..Len(cleaned.columns) : sheet.cells[<<2, c>>] = cleaned.rows[1][c]

-----------------------------------------------------------------------------
(* Properties of _process_pdf, checked under SpecPdf *)

\* C10 (as claimed): a table whose frame is empty gets no worksheet, and when
\* no table of the document has a successfully written worksheet the
\* returned workbook is exactly one sheet titled "No Tables Found".
C10_PlaceholderWhenNothingWritten ==
    /\ (table_num > 0 /\ table_outcome = "empty") =>
           \A i \in 1..Len(workbook) :
               workbook[i].title # sheet_title_base(page_num, table_num)
    /\ (pdf_pc = "returned" /\ \A i \in 1..Len(workbook) : ~workbook[i].written) =>
           sheetnames(workbook) = <<NoTablesFound>>

\* C11: whatever the pages and tables did, the workbook holds at least one
\* sheet when workbook.save is called.
C11_NeverSavedWithoutSheet ==
    [][pdf_pc = "saving" => Len(saved') >= 1]_vars

\* saved after a table's sheet was created but its writing failed, and
\* nothing else was written
C11_Witness ==
    /\ pdf_pc = "returned"
    /\ sheets_added_count = 0
    /\ Len(saved) = 1
    /\ saved[1] # NoTablesFound

Used(names, t) == \E i \in 1..Len(names) : names[i] = t
Suffixed(base, k) == base \o <<"_">> \o Decimal(k)

\* the title generated for base in a workbook with these titles is unused;
\* it is base itself when base is unused, else base with the smallest
\* counter, from 1, that is unused
SmallestUnused(names, base) ==
    LET t == sheet_title(names, base)
    IN /\ ~Used(names, t)
       /\ IF ~Used(names, base) THEN t = base
          ELSE \E k \in 1..(Len(names) + 1) :
                  /\ t = Suffixed(base, k)
                  /\ \A j \in 1..(k - 1) : Used(names, Suffixed(base, j))

\* C12: at every point of _process_pdf the titles of the workbook are
\* pairwise distinct, and the title the code generates for a table, in the
\* workbook as it is, is the base title or, when that exists already, the
\* base title with the smallest unused counter starting at 1.
C12_TitlesDistinct ==
    /\ \A i, j \in 1..Len(workbook) :
           workbook[i].title = workbook[j].title => i = j
    /\ \A p \in 1..MaxPages, t \in 1..MaxTables :
           SmallestUnused(sheetnames(workbook), sheet_title_base(p, t))

\* a workbook with the sheets of two pages
C12_Witness ==
    /\ Len(workbook) >= 3
    /\ page_num = 2

-----------------------------------------------------------------------------
(* Further properties of the worksheet writer, checked under SpecExcel *)

\* the labels, as strings, are "0", "1", ... in this order
PositionalLabels(columns) ==
    \A c \in 1..Len(columns) : columns[c] = Decimal(c - 1)

\* write_df_to_excel returned for the frame of this state
Written == xl_pc = "done" /\ sheet.exists /\ ~sheet.raised

\* C13: when write_df_to_excel returns, either the labels are the positional
\* indices, no header row is written and data row i is in output row i, or
\* the labels are in output row 1 and data row i is in output row i + 1; the
\* sheet holds every data row, in order, and nothing else.
C13_HeaderDecisionPlacesRows ==
    Written =>
        LET n == Len(cleaned.columns)
            k == Len(cleaned.rows)
        IN IF PositionalLabels(cleaned.columns)
           THEN sheet.cells = RowsFrom(cleaned.rows, n, 1)
           ELSE /\ DOMAIN sheet.cells = (1..(k + 1)) \X (1..n)
                /\ \A c \in 1..n : sheet.cells[<<1, c>>] = cleaned.columns[c]
                /\ \A i \in 1..k, c \in 1..n :
                       sheet.cells[<<i + 1, c>>] = cleaned.rows[i][c]

\* two data rows written below a header row
C13_Witness ==
    /\ Written
    /\ ~PositionalLabels(cleaned.columns)
    /\ Len(cleaned.rows) = 2
    /\ Len(cleaned.columns) = 2

\* the lines of a label, its backslash-n sequences taken as newlines
LabelLines(label) == SplitLines(UnescapeNewlines(label))

MaxLabelLines(columns) ==
    MaxOf({Len(LabelLines(columns[c])) : c \in 1..Len(columns)} \cup {0})

\* one row per label line, the shorter labels padded with empty cells
SyntheticRows(columns) ==
    [i \in 1..MaxLabelLines(columns) |->
        [c \in 1..Len(columns) |->
            IF i <= Len(LabelLines(columns[c])) THEN LabelLines(columns[c])[i] ELSE <<>>]]

\* C14 (as claimed): when a column label has more than one line, the sheet
\* holds N rows made of the label lines, N the largest line count, then the
\* data rows, from output row 1 on, and no separate header row.
C14_MultiLineLabelsBecomeRows ==
    (Written /\ MaxLabelLines(cleaned.columns) > 1) =>
        sheet.cells = RowsFrom(SyntheticRows(cleaned.columns) \o cleaned.rows,
                               Len(cleaned.columns), 1)

\* L of a column: the longest single line among the cells written to it
\* (the header cell, if a header row is written, and the data cells)
LongestLine(c) ==
    MaxOf({cell_max_line_length(sheet.cells[rc]) :
             rc \in {x \in DOMAIN sheet.cells : x[2] = c}} \cup {0})

\* C15 (as claimed): every column that received a cell has the width
\* min(max((L + 2) * 1.15, minimum_width), 70), the minimum width being the
\* 8 of the code.  Compared in hundredths; sheet.width is in tenths.
C15_WidthFormula ==
    Written =>
        \A c \in 1..Len(cleaned.columns) :
            sheet.width[c] * 10 = MinOf({MaxOf({(LongestLine(c) + 2) * 115, 800}), 7000})

\* C15 (amended): every column has the width min(max((L + 2) * 1.2, 8), 70),
\* which is never above 70 and never below 8.  In tenths.
C15_WidthFormulaAmended ==
    Written =>
        \A c \in 1..Len(cleaned.columns) :
            /\ sheet.width[c] = MinOf({MaxOf({(LongestLine(c) + 2) * 12, 80}), 700})
            /\ sheet.width[c] >= 80
            /\ sheet.width[c] <= 700

\* a sheet with one column between floor and cap (L = 10, width 14.4) and
\* one at the floor
C15_Witness ==
    /\ Written
    /\ Len(cleaned.columns) = 2
    /\ sheet.width[1] = 144
    /\ sheet.width[2] = 80

-----------------------------------------------------------------------------
(* Further properties of the upload handlers, checked under Spec *)

\* a request was received and its handler reached the type validation: the
\* file has a name and, in /ocr/chat, the Mistral client exists
TypeValidated ==
    /\ pc # "idle"
    /\ req_filename # <<>>
    /\ endpoint = "ocr_chat" => mistral_client

\* C16: an upload declared application/octet-stream whose name ends in .pdf,
\* in any case, passes validation in all three endpoints (the temp file is
\* created, no 400 or 415) and the OCR handlers take it as application/pdf;
\* in the OCR handlers a declared type other than application/octet-stream
\* is never replaced, and one outside the allowed three is rejected with
\* 415 whatever the file name and the x-file-type hint are.
C16_OctetStreamPdfAccepted ==
    TypeValidated =>
        /\ (req_content_type = "application/octet-stream"
               /\ EndsWith(LowerStr(req_filename), DotPdf)) =>
              /\ created
              /\ status \notin {400, 415}
              /\ endpoint \in OcrEndpoints => treated_as = "application/pdf"
        /\ (endpoint \in OcrEndpoints
               /\ req_content_type # "application/octet-stream") =>
              /\ treated_as = req_content_type
              /\ req_content_type \notin allowed_content_types =>
                    (status = 415 /\ ~created)

\* /ocr/chat took A.PDF, sent as application/octet-stream, as a PDF and
\* handed it to the OCR worker
C16_Witness ==
    /\ endpoint = "ocr_chat"
    /\ req_content_type = "application/octet-stream"
    /\ req_filename = <<"A", ".", "P", "D", "F">>
    /\ req_x_file_type = "none"
    /\ treated_as = "application/pdf"
    /\ processed

-----------------------------------------------------------------------------
(* Properties of the requests and their workers, checked under SpecOcr *)

OcrSteps == {"upload", "signed_url", "ocr"}

InText(x, parts) == \E i \in 1..Len(parts) : parts[i] = x

\* C17 (as claimed): when a step of the remote OCR sequence raised and the
\* handler answered with the worker's outcome, the response is a 500 whose
\* detail carries the type name and the message of the error that step
\* raised.
C17_DetailCarriesOriginalError ==
    \A r \in Requests :
        (remote_error[r].step \in OcrSteps /\ responses[r] # <<>>
            /\ responses[r][1].status # 504) =>
           /\ responses[r][1].status = 500
           /\ responses[r][1].detail.type_name = remote_error[r].type
           /\ InText(remote_error[r].message, responses[r][1].detail.text)

\* request r has a remote call in flight
InFlight(r) == thread[r] \in OcrSteps \/ handler[r] = "chatting"

\* C18 (as claimed): no remote call is made on the event-loop thread: while
\* a request has a remote call in flight the event loop is free to accept
\* and advance another request.
C18_RemoteCallsOffTheLoop ==
    (\E r \in Requests : InFlight(r)) => loop_holder = 0

\* the remote operations of a request of kind k, in the order claimed
RemoteSequence(k) ==
    CASE k = "ocr_process" -> <<"upload", "signed_url", "ocr">>
      [] k = "ocr_chat" -> <<"upload", "signed_url", "ocr", "chat">>
      [] k = "chat_with_document" -> <<"chat">>
      [] OTHER -> <<>>

IsPrefix(a, b) == Len(a) <= Len(b) /\ a = SubSeq(b, 1, Len(a))

\* C19: the remote operations a request has invoked are a prefix of upload,
\* signed URL, OCR, chat (each at most once, in this order); none is invoked
\* after one that failed; and a success response is sent only when all of
\* them were invoked and none failed, so a failed step or a timeout never
\* ends in a success response.
C19_RemoteStepsOnceInOrder ==
    \A r \in Requests :
        /\ IsPrefix(calls[r], RemoteSequence(kind[r]))
        /\ remote_error[r].step \in OcrSteps \cup {"chat"} =>
              /\ calls[r] # <<>>
              /\ calls[r][Len(calls[r])] = remote_error[r].step
        /\ Len(responses[r]) <= 1
        /\ (responses[r] # <<>> /\ responses[r][1].status = 200) =>
              /\ remote_error[r] = NoError
              /\ calls[r] = RemoteSequence(kind[r])
        /\ (responses[r] # <<>> /\ responses[r][1].status # 200) =>
              responses[r][1].status \in {500, 504}

\* an /ocr/chat request whose OCR call failed after upload and signed URL
\* succeeded: 500, and the chat model was never called
C19_Witness ==
    \E r \in Requests :
        /\ kind[r] = "ocr_chat"
        /\ calls[r] = <<"upload", "signed_url", "ocr">>
        /\ remote_error[r].step = "ocr"
        /\ responses[r] # <<>>
        /\ responses[r][1].status = 500

\* the response of request r is what its own worker ended with
FromOwnWorker(r, resp) ==
    /\ thread[r] \in {"returned", "raised"}
    /\ resp.result_of \in {0, r}
    /\ resp.status = 200 => remote_error[r] = NoError
    /\ resp.status = 500 => remote_error[r] # NoError

Answered ==
    \A r \in Requests :
        /\ Len(responses[r]) <= 1
        /\ handler[r] = "done" <=> Len(responses[r]) = 1
        /\ (responses[r] # <<>> /\ kind[r] # "chat_with_document") =>
              \/ responses[r][1] = Response(504, NoDetail, 0)
              \/ FromOwnWorker(r, responses[r][1])

\* C20: under every interleaving of the timeout and the worker's completion
\* a request that was answered has exactly one response, which is 504 or
\* what its own worker ended with; the worker goes on after the timeout,
\* and whatever it ends with later leaves the responses of every request
\* that was answered as they are.
C20_ExactlyOneResponse ==
    /\ []Answered
    /\ [][\A r \in Requests :
            responses[r] # <<>> => responses'[r] = responses[r]]_vars

\* answered 504, and the abandoned worker has gone on to its end since
C20_Witness ==
    \E r \in Requests :
        /\ responses[r] = <<Response(504, NoDetail, 0)>>
        /\ handler[r] = "done"
        /\ thread[r] = "returned"
        /\ results[r] = r
        /\ Len(calls[r]) = 3

-----------------------------------------------------------------------------
(* Properties of _process_pdf: errors, the document handle *)

TableErrors == {"raises_before_sheet", "raises_after_sheet"}

\* a step in which the error of a page or of a table is skipped leaves no
\* exception on its way out and goes on with the next table or page
SkipStep ==
    /\ page_errors' # page_errors =>
          /\ page_num' = page_num + 1
          /\ pdf_pc' = "pages"
          /\ failed' = failed
          /\ workbook' = workbook
    /\ (table_num' = table_num + 1 /\ table_outcome' \in TableErrors) =>
          /\ page_num' = page_num
          /\ failed' = failed
          /\ pdf_pc' = IF table_num' < tables THEN "tables" ELSE "pages"
    /\ page_num' # page_num => page_num' = page_num + 1
    /\ (page_num' = page_num /\ table_num' # table_num) =>
          table_num' = table_num + 1

\* the loop over the pages is left without an exception only after the last
\* table of the last page
AllProcessed ==
    (pdf_pc \in {"closing", "saving", "returned"} /\ ~failed) =>
        /\ page_num = num_pages
        /\ table_num = tables

\* C21: an error of the detector on a page, or of the formatter or the
\* sheet writer on a table, is skipped: the next table of the page and the
\* next page are processed in order, no exception leaves _process_pdf
\* because of it, and the workbook is serialized only after every page and
\* table was gone through.
C21_ErrorsSkipped == [][SkipStep]_vars /\ []AllProcessed

\* the detector raised on page 1 and the writer on table 1 of page 2; table
\* 2 of page 2 was written and the workbook returned
C21_Witness ==
    /\ pdf_pc = "returned"
    /\ num_pages = 2
    /\ page_errors = 1
    /\ workbook = << [title |-> sheet_title_base(2, 1), written |-> FALSE],
                     [title |-> sheet_title_base(2, 2), written |-> TRUE] >>
    /\ saved = sheetnames(workbook)

\* C22: a document that was opened has been closed exactly once when
\* _process_pdf is about to serialize the workbook, has returned or has
\* raised, on every path; it is never closed twice.
C22_DocumentClosedOnce ==
    /\ doc_closes <= 1
    /\ (doc # "none" /\ pdf_pc \in {"saving", "returned", "raised"}) =>
          doc_closes = 1

-----------------------------------------------------------------------------
(* Properties of the upload handlers: validation, the temp file and the worker *)

\* the request at hand has no file name
MissingFile == req_filename = <<>>

\* the table service is sent a file whose name does not end in .pdf
NotPdfName ==
    /\ endpoint = "extract_tables"
    /\ ~MissingFile
    /\ ~EndsWith(LowerStr(req_filename), DotPdf)

\* the OCR service is sent a file of a type it does not allow
DisallowedType ==
    /\ endpoint \in OcrEndpoints
    /\ ~MissingFile
    /\ treated_as \notin allowed_content_types

\* input validation is reached and fails
Invalid ==
    /\ pc # "idle"
    /\ ~(endpoint = "ocr_chat" /\ ~mistral_client)
    /\ MissingFile \/ NotPdfName \/ DisallowedType

\* no temp file was created, no byte read, no worker started
NothingTouched ==
    /\ ~created
    /\ ~on_disk
    /\ ~temp_file_path
    /\ unlinks = 0
    /\ file_size = 0
    /\ written = 0
    /\ worker = "none"
    /\ ~processed

\* C23: a request that fails input validation is answered 400 (no file or
\* file name; in the table service a name not ending in .pdf) or 415
\* (disallowed type in the OCR service) with no temp file created, no byte
\* of the upload read and no worker started; 400 and 415 are sent for no
\* other reason.
C23_RejectedBeforeAnyEffect ==
    /\ Invalid =>
          /\ pc = "done"
          /\ status = IF DisallowedType THEN 415 ELSE 400
          /\ NothingTouched
    /\ status \in {400, 415} => Invalid

\* /ocr/process answered 415 to a text file declared as text/plain
C23_Witness ==
    /\ endpoint = "ocr_process"
    /\ req_filename = <<"a", ".", "t", "x", "t">>
    /\ req_content_type = "text/plain"
    /\ status = 415
    /\ NothingTouched

-----------------------------------------------------------------------------
(* Properties of the chat prompt of /ocr/chat *)

\* the positions of the placeholders in remaining_text (no text has a bracket
\* of its own)
PlaceholderStarts == {q \in 1..Len(remaining_text) : remaining_text[q] = "["}

\* the k-th placeholder of remaining_text, from the left, as text
NthPlaceholder(k) ==
    LET q == CHOOSE x \in PlaceholderStarts :
                 Cardinality({y \in PlaceholderStarts : y < x}) = k - 1
        e == MinOf({x \in q..Len(remaining_text) : remaining_text[x] = "]"})
    IN SubSeq(remaining_text, q, e)

\* C24: the table summary of the chat prompt has one line for each table
\* that was replaced by a placeholder, in the order of the placeholders in
\* the text, and the table replaced by [TABLE_i] is listed as "Table i+1"
\* with its own headers.
C24_SummaryNumberIsIndexPlusOne ==
    spliced =>
        /\ Len(table_info) = Len(ocr_tables)
        /\ Cardinality(PlaceholderStarts) = Len(ocr_tables)
        /\ \A j \in 1..Len(ocr_tables) :
              /\ NthPlaceholder(j) = Placeholder(ocr_tables[j].index)
              /\ table_info[j] =
                    <<"T", "a", "b", "l", "e", " ">>
                        \o Decimal(ocr_tables[j].index + 1) \o <<":", " ">>
                        \o JoinComma(ocr_tables[j].data.headers) \o <<NL>>

\* two tables: [TABLE_0] and [TABLE_1] in the text, "Table 1" and "Table 2"
\* in the summary
C24_Witness ==
    /\ spliced
    /\ Len(ocr_tables) = 2
    /\ NthPlaceholder(2) = <<"[", "T", "A", "B", "L", "E", "_", "1", "]">>
    /\ table_info[2] = <<"T", "a", "b", "l", "e", " ", "2", ":", " ", "a", NL>>

-----------------------------------------------------------------------------
(* Properties of the temp file while the worker runs *)

\* the step in which asyncio.wait_for gives up
TimeoutStep == ~timed_out /\ timed_out'

\* C25: a timeout makes the handler delete the temp file at once, whatever
\* the worker thread is doing: the worker that was running still runs, and
\* its file is gone; and a timeout is possible whenever the handler waits
\* for a running worker, in each service.  Without a timeout the temp file
\* is on disk for as long as the worker runs.
C25_FileOutlivedOnlyByAbandonedWorker ==
    /\ [][TimeoutStep =>
            /\ worker' = worker
            /\ on_disk
            /\ ~on_disk'
            /\ pc' = "done"]_vars
    /\ []((pc = "awaiting" /\ worker = "running") => ENABLED Timeout)
    /\ []((worker = "running" /\ ~timed_out) => (on_disk /\ pc = "awaiting"))

\* the OCR service: 504 sent, the temp file deleted, _perform_mistral_ocr
\* still at work on its path
C25_Witness ==
    /\ endpoint = "ocr_process"
    /\ timed_out
    /\ pc = "done"
    /\ status = 504
    /\ worker = "running"
    /\ created
    /\ ~on_disk
    /\ unlinks = 1

====
